---------------------------- MODULE Spec2Model ----------------------------
(***************************************************************************)
(* Model of growler/http/parser.py: the incremental HTTP request Parser.   *)
(*                                                                         *)
(* A byte is a one-character string; the ASCII bytes and the characters    *)
(* they decode to are written the same way, and "xFF" is the byte 0xFF,    *)
(* which no UTF-8 text contains.  A bytes object and a str are sequences   *)
(* of such characters.  An optional value (None or a value) is a sequence  *)
(* of length 0 or 1.  The list of fragments self._buffer is kept as the    *)
(* concatenation of its elements, the only way the code reads it           *)
(* (b''.join at line 72).                                                  *)
(*                                                                         *)
(* The identity tests of the source ("prev_char is b'\r'[0]" at line 172,  *)
(* "line is b''" at line 186) are comparisons of small integers and of     *)
(* the empty bytes object, both of which CPython keeps as unique objects,  *)
(* so they are modelled as equalities.                                     *)
(***************************************************************************)
EXTENDS Integers, Sequences, FiniteSets, TLC

None == <<>>
Some(x) == <<x>>
Val(o) == o[1]

\* MAX_REQUEST_LENGTH is 1024 ** 2 in the source; it is scaled down here so
\* that the wire streams of the model can cross it.
MAX_REQUEST_LENGTH == 32

CR == "\r"
LF == "\n"
TAB == "\t"
SP == " "
CRLF_TOKEN == <<CR, LF>>
LF_TOKEN == <<LF>>

NoError == "none"
HTTPErrorBadRequest == "HTTPErrorBadRequest"
HTTPErrorNotImplemented == "HTTPErrorNotImplemented"
HTTPErrorInvalidHeader == "HTTPErrorInvalidHeader"
HTTPErrorVersionNotSupported == "HTTPErrorVersionNotSupported"
TypeError == "TypeError"

(***************************************************************************)
(* bytes / str primitives of Python used by the parser                     *)
(***************************************************************************)

\* s.startswith(p) at offset i (1-based): s[i .. i+len(p)-1] = p
MatchAt(s, p, i) ==
    /\ i + Len(p) - 1 <= Len(s)
    /\ \A k \in 1..Len(p) : s[i + k - 1] = p[k]

\* bytes.find(sub): 0-based index of the first occurrence, -1 when absent
find(s, sub) ==
    LET hits == {i \in 1..Len(s) : MatchAt(s, sub, i)}
    IN  IF hits = {} THEN -1
        ELSE (CHOOSE i \in hits : \A j \in hits : i <= j) - 1

\* bytes.endswith(suffix)
endswith(s, suffix) ==
    /\ Len(suffix) <= Len(s)
    /\ MatchAt(s, suffix, Len(s) - Len(suffix) + 1)

\* bytes.split(sep) / str.split(sep, maxsplit): the pieces between the
\* non-overlapping occurrences of sep, scanned left to right; maxsplit = -1
\* is no limit
RECURSIVE splitn(_, _, _)
splitn(s, sep, maxsplit) ==
    LET p == find(s, sep)
    IN  IF p = -1 \/ maxsplit = 0 THEN <<s>>
        ELSE <<SubSeq(s, 1, p)>> \o
             splitn(SubSeq(s, p + Len(sep) + 1, Len(s)), sep,
                    IF maxsplit > 0 THEN maxsplit - 1 ELSE maxsplit)

split(s, sep) == splitn(s, sep, -1)

\* b''.join(list)
RECURSIVE join(_)
join(list) == IF list = <<>> THEN <<>> ELSE Head(list) \o join(Tail(list))

\* the characters Python's str.split() and str.strip() treat as whitespace
\* (those of the model's alphabet)
Whitespace == {SP, TAB, LF, CR, "\f"}

RECURSIVE lstrip(_)
lstrip(s) == IF s # <<>> /\ Head(s) \in Whitespace THEN lstrip(Tail(s)) ELSE s

RECURSIVE rstrip(_)
rstrip(s) ==
    IF s # <<>> /\ s[Len(s)] \in Whitespace
    THEN rstrip(SubSeq(s, 1, Len(s) - 1)) ELSE s

\* str.strip()
strip(s) == rstrip(lstrip(s))

\* the first whitespace-free word of s (s does not start with whitespace)
RECURSIVE word(_)
word(s) ==
    IF s = <<>> \/ Head(s) \in Whitespace THEN <<>>
    ELSE <<Head(s)>> \o word(Tail(s))

\* str.split() without arguments: the maximal whitespace-free words
RECURSIVE split_ws(_)
split_ws(s) ==
    LET t == lstrip(s)
    IN  IF t = <<>> THEN <<>>
        ELSE LET w == word(t)
             IN  <<w>> \o split_ws(SubSeq(t, Len(w) + 1, Len(t)))

\* bytes.decode('utf-8') raises UnicodeDecodeError on the byte 0xFF; the
\* other bytes of the model are ASCII and decode to their own character
can_decode(b) == \A i \in 1..Len(b) : b[i] # "xFF"

LowerCase == <<"a", "b", "c", "d", "e", "f", "g", "h", "i", "j", "k", "l", "m",
               "n", "o", "p", "q", "r", "s", "t", "u", "v", "w", "x", "y", "z">>
UpperCase == <<"A", "B", "C", "D", "E", "F", "G", "H", "I", "J", "K", "L", "M",
               "N", "O", "P", "Q", "R", "S", "T", "U", "V", "W", "X", "Y", "Z">>

\* str.upper()
upper(s) ==
    [i \in 1..Len(s) |->
        IF \E k \in 1..26 : LowerCase[k] = s[i]
        THEN UpperCase[CHOOSE k \in 1..26 : LowerCase[k] = s[i]]
        ELSE s[i]]

\* INVALID_CHAR_REGEX: the control characters, DEL and the delimiters
INVALID_CHAR_REGEX ==
    {TAB, LF, CR, "\f", SP, "(", ")", ",", "/", ":", ";", "<", "=", ">", "?",
     "@", "[", "]", "{", "}", "\\", "\""}

\* urlparse(request_uri) for an origin-form target: the path up to the first
\* '?' and the query after it
urlparse(request_uri) ==
    LET parts == splitn(request_uri, <<"?">>, 1)
    IN  [path |-> parts[1],
         query |-> IF Len(parts) > 1 THEN parts[2] ELSE <<>>]


(***************************************************************************)
(* Parser                                                                  *)
(***************************************************************************)

\* Parser.__init__: the attributes of a new Parser.  The attributes that
\* parse_request_line creates (version, method, _process_headers,
\* original_url, parsed_url) do not exist yet and are None here.
ParserInit ==
    [EOL_TOKEN |-> None,
     _buffer |-> <<>>,
     HTTP_VERSION |-> None,
     _header_buffer |-> None,
     headers |-> [k \in {} |-> <<>>],
     needs_request_line |-> TRUE,
     needs_headers |-> TRUE,
     request_length |-> 0,
     body_buffer |-> None,
     version |-> None,
     method |-> None,
     _process_headers |-> None,
     original_url |-> None,
     parsed_url |-> None]

\* the outcome of a method: the parser as the method leaves it and the
\* exception it raised, if any
Ok(self) == [self |-> self, err |-> NoError]
Raise(self, e) == [self |-> self, err |-> e]

\* find_newline without the "EOL_TOKEN is None" guard of line 168: the token
\* is detected again on every call
find_newline_redetect(self, string) ==
    LET line_end_pos == find(string, LF_TOKEN)
        prev_char == IF line_end_pos = 0 THEN string[Len(string)]
                     ELSE string[line_end_pos]
    IN  IF line_end_pos # -1
        THEN LET tok == IF prev_char = CR THEN CRLF_TOKEN ELSE LF_TOKEN
             IN  [self |-> [self EXCEPT !.EOL_TOKEN = Some(tok)],
                  pos |-> find(string, tok)]
        ELSE IF self.EOL_TOKEN = None THEN [self |-> self, pos |-> -1]
        ELSE [self |-> self, pos |-> find(string, Val(self.EOL_TOKEN))]

\* Parser.find_newline: locks EOL_TOKEN on the first '\n' seen in `string`
\* and returns the position of the token in `string` (-1 when absent).
\* string[line_end_pos-1] is string[-1], the last byte, when the '\n' is the
\* first byte.
find_newline(self, string) ==
    LET line_end_pos == find(string, LF_TOKEN)
        prev_char == IF line_end_pos = 0 THEN string[Len(string)]
                     ELSE string[line_end_pos]
    IN  IF self.EOL_TOKEN = None
        THEN IF line_end_pos # -1
             THEN LET tok == IF prev_char = CR THEN CRLF_TOKEN ELSE LF_TOKEN
                  IN  [self |-> [self EXCEPT !.EOL_TOKEN = Some(tok)],
                       pos |-> find(string, tok)]
             ELSE [self |-> self, pos |-> -1]
        ELSE [self |-> self, pos |-> find(string, Val(self.EOL_TOKEN))]

SupportedVersions ==
    {<<"H", "T", "T", "P", "/", "1", ".", "1">>,
     <<"H", "T", "T", "P", "/", "1", ".", "0">>}

SupportedMethods == {<<"G", "E", "T">>, <<"P", "O", "S", "T">>}

\* parse_request_line with a default handler for unknown methods: the lookup
\* of lines 133-136 never yields None
parse_request_line_any_method(self, req_line) ==
    LET toks == split_ws(req_line)
        method == toks[1]
        request_uri == toks[2]
        version == toks[3]
        num_str == SubSeq(version, find(version, <<"/">>) + 2, Len(version))
        s1 == [self EXCEPT !.HTTP_VERSION = Some(split(num_str, <<".">>)),
                           !.version = Some(version),
                           !.method = Some(method),
                           !._process_headers = Some(method)]
    IN  IF Len(toks) # 3 THEN Raise(self, HTTPErrorBadRequest)
        ELSE IF version \notin SupportedVersions
        THEN Raise(self, HTTPErrorVersionNotSupported)
        ELSE Ok([s1 EXCEPT !.original_url = Some(request_uri),
                           !.parsed_url = Some(urlparse(request_uri))])

\* parse_request_line with the method looked up before the version test
parse_request_line_method_first(self, req_line) ==
    LET toks == split_ws(req_line)
        method == toks[1]
        request_uri == toks[2]
        version == toks[3]
        num_str == SubSeq(version, find(version, <<"/">>) + 2, Len(version))
        s1 == [self EXCEPT !.HTTP_VERSION = Some(split(num_str, <<".">>)),
                           !.version = Some(version),
                           !.method = Some(method),
                           !._process_headers =
                               IF method \in SupportedMethods
                               THEN Some(method) ELSE None]
    IN  IF Len(toks) # 3 THEN Raise(self, HTTPErrorBadRequest)
        ELSE IF s1._process_headers = None
        THEN Raise(s1, HTTPErrorNotImplemented)
        ELSE IF version \notin SupportedVersions
        THEN Raise(self, HTTPErrorVersionNotSupported)
        ELSE Ok([s1 EXCEPT !.original_url = Some(request_uri),
                           !.parsed_url = Some(urlparse(request_uri))])

\* Parser.parse_request_line
parse_request_line(self, req_line) ==
    LET toks == split_ws(req_line)
        method == toks[1]
        request_uri == toks[2]
        version == toks[3]
        num_str == SubSeq(version, find(version, <<"/">>) + 2, Len(version))
        s1 == [self EXCEPT !.HTTP_VERSION = Some(split(num_str, <<".">>)),
                           !.version = Some(version),
                           !.method = Some(method),
                           !._process_headers =
                               IF method \in SupportedMethods
                               THEN Some(method) ELSE None]
    IN  IF Len(toks) # 3 THEN Raise(self, HTTPErrorBadRequest)
        ELSE IF version \notin SupportedVersions
        THEN Raise(self, HTTPErrorVersionNotSupported)
        ELSE IF s1._process_headers = None
        THEN Raise(s1, HTTPErrorNotImplemented)
        ELSE Ok([s1 EXCEPT !.original_url = Some(request_uri),
                           !.parsed_url = Some(urlparse(request_uri))])

\* Parser._flush_header_buffer; subscripting a _header_buffer that is None
\* raises TypeError
_flush_header_buffer(self) ==
    IF self._header_buffer = None THEN Raise(self, TypeError)
    ELSE LET hb == Val(self._header_buffer)
         IN  Ok([self EXCEPT
                   !.headers = [k \in DOMAIN self.headers \cup {hb.key} |->
                                   IF k = hb.key THEN hb.value
                                   ELSE self.headers[k]],
                   !._header_buffer = None])

\* is_invalid_header_name without the test for the empty name of line 239
is_invalid_header_name_nonempty(string) ==
    \E i \in 1..Len(string) : string[i] \in INVALID_CHAR_REGEX

\* Parser.is_invalid_header_name
is_invalid_header_name(string) ==
    string = <<>> \/ \E i \in 1..Len(string) : string[i] \in INVALID_CHAR_REGEX

\* header_from_line without the upper() of line 230
header_from_line_keep_case(line) ==
    LET kv == splitn(line, <<":">>, 1)
        key == strip(kv[1])
        value == strip(kv[2])
    IN  IF Len(kv) # 2
        THEN [hdr |-> None, err |-> HTTPErrorInvalidHeader]
        ELSE IF is_invalid_header_name(key)
        THEN [hdr |-> None, err |-> HTTPErrorInvalidHeader]
        ELSE [hdr |-> Some([key |-> key,
                            value |-> [folded |-> FALSE, parts |-> <<value>>]]),
              err |-> NoError]

\* A header value is a str or, once folded, a list of str: `parts` holds the
\* str alone or the elements of the list, `folded` tells which.
\* Parser.header_from_line: [hdr, err]
header_from_line(line) ==
    LET kv == splitn(line, <<":">>, 1)
        key == strip(kv[1])
        value == strip(kv[2])
    IN  IF Len(kv) # 2
        THEN [hdr |-> None, err |-> HTTPErrorInvalidHeader]
        ELSE IF is_invalid_header_name(key)
        THEN [hdr |-> None, err |-> HTTPErrorInvalidHeader]
        ELSE [hdr |-> Some([key |-> upper(key),
                            value |-> [folded |-> FALSE, parts |-> <<value>>]]),
              err |-> NoError]

\* fold_value without the strip of line 199
fold_value_unstripped(val, line) ==
    [folded |-> TRUE, parts |-> Append(val.parts, line)]

\* store_headers_from_lines, lines 199-204: a continuation line, stripped,
\* is appended to the pending value, which becomes a list
fold_value(val, line) ==
    [folded |-> TRUE, parts |-> Append(val.parts, strip(line))]

\* Parser.store_headers_from_lines, from the line at index lineno on
RECURSIVE store_headers_loop(_, _, _)
store_headers_loop(self, lines, lineno) ==
    IF lineno > Len(lines) THEN Ok(self)
    ELSE
    LET line == lines[lineno]
    IN  IF line = <<>>
        THEN LET fl == _flush_header_buffer(self)
             IN  IF fl.err # NoError THEN fl
                 ELSE Ok([fl.self EXCEPT !.body_buffer =
                            Some(join(SubSeq(lines, lineno, Len(lines))))])
        ELSE IF ~can_decode(line) THEN Raise(self, HTTPErrorBadRequest)
        ELSE IF line[1] \in {SP, TAB}
        THEN IF self._header_buffer = None
             THEN Raise(self, HTTPErrorInvalidHeader)
             ELSE LET hb == Val(self._header_buffer)
                      nv == fold_value(hb.value, line)
                  IN  store_headers_loop(
                          [self EXCEPT !._header_buffer =
                              Some([hb EXCEPT !.value = nv])],
                          lines, lineno + 1)
        ELSE LET s1 == IF self._header_buffer # None
                       THEN _flush_header_buffer(self).self ELSE self
                 h == header_from_line(line)
             IN  IF h.err # NoError THEN Raise(s1, h.err)
                 ELSE store_headers_loop(
                          [s1 EXCEPT !._header_buffer = h.hdr],
                          lines, lineno + 1)

store_headers_from_lines(self, lines) == store_headers_loop(self, lines, 1)

\* the calls made on self.parent
set_request_line(method, parsed_url, version) ==
    [name |-> "set_request_line",
     args |-> <<method, parsed_url.path, parsed_url.query, version>>,
     headers |-> [k \in {} |-> <<>>]]
set_headers(headers) ==
    [name |-> "set_headers", args |-> <<>>, headers |-> headers]

\* the outcome of consume: the parser after the call, the value returned
\* (None when the call raised), the exception raised and the calls made on
\* self.parent during the call
Result(self, r, e, c) == [self |-> self, ret |-> r, err |-> e, calls |-> c]

\* consume_headers without the assignment of line 104: needs_headers stays
\* true after the headers callback
consume_headers_stay(self, lines, calls) ==
    IF ~self.needs_headers THEN Result(self, self.body_buffer, NoError, calls)
    ELSE LET sh == store_headers_from_lines(self, lines)
         IN  IF sh.err # NoError THEN Result(sh.self, None, sh.err, calls)
             ELSE IF sh.self._header_buffer = None
             THEN Result(sh.self, sh.self.body_buffer, NoError,
                         Append(calls, set_headers(sh.self.headers)))
             ELSE Result(sh.self, sh.self.body_buffer, NoError, calls)

\* consume, lines 97-107: the header lines and the return value
\* consume_headers returning empty bytes instead of the unset body_buffer
\* while a header is still pending
consume_headers_empty_body(self, lines, calls) ==
    IF ~self.needs_headers THEN Result(self, self.body_buffer, NoError, calls)
    ELSE LET sh == store_headers_from_lines(self, lines)
         IN  IF sh.err # NoError THEN Result(sh.self, None, sh.err, calls)
             ELSE IF sh.self._header_buffer = None
             THEN Result([sh.self EXCEPT !.needs_headers = FALSE],
                         sh.self.body_buffer, NoError,
                         Append(calls, set_headers(sh.self.headers)))
             ELSE Result(sh.self, Some(<<>>), NoError, calls)

\* consume_headers without the needs_headers guard of line 98
consume_headers_always(self, lines, calls) ==
    LET sh == store_headers_from_lines(self, lines)
    IN  IF sh.err # NoError THEN Result(sh.self, None, sh.err, calls)
        ELSE IF sh.self._header_buffer = None
        THEN Result([sh.self EXCEPT !.needs_headers = FALSE],
                    sh.self.body_buffer, NoError,
                    Append(calls, set_headers(sh.self.headers)))
        ELSE Result(sh.self, sh.self.body_buffer, NoError, calls)

consume_headers(self, lines, calls) ==
    IF ~self.needs_headers THEN Result(self, self.body_buffer, NoError, calls)
    ELSE LET sh == store_headers_from_lines(self, lines)
         IN  IF sh.err # NoError THEN Result(sh.self, None, sh.err, calls)
             ELSE IF sh.self._header_buffer = None
             THEN Result([sh.self EXCEPT !.needs_headers = FALSE],
                         sh.self.body_buffer, NoError,
                         Append(calls, set_headers(sh.self.headers)))
             ELSE Result(sh.self, sh.self.body_buffer, NoError, calls)

\* consume_request_line without the assignment of line 92
consume_request_line_stay(self, lines) ==
    IF ~self.needs_request_line
    THEN IF lines = <<>> THEN Result(self, None, NoError, <<>>)
         ELSE consume_headers(self, lines, <<>>)
    ELSE IF ~can_decode(Head(lines))
    THEN Result(self, None, HTTPErrorBadRequest, <<>>)
    ELSE LET pr == parse_request_line(self, Head(lines))
             s1 == pr.self
             calls == <<set_request_line(Val(s1.method), Val(s1.parsed_url),
                                         Val(s1.version))>>
         IN  IF pr.err # NoError THEN Result(pr.self, None, pr.err, <<>>)
             ELSE IF Tail(lines) = <<>> THEN Result(s1, None, NoError, calls)
             ELSE consume_headers(s1, Tail(lines), calls)

\* consume, lines 82-95: the request line
consume_request_line(self, lines) ==
    IF ~self.needs_request_line
    THEN IF lines = <<>> THEN Result(self, None, NoError, <<>>)
         ELSE consume_headers(self, lines, <<>>)
    ELSE IF ~can_decode(Head(lines))
    THEN Result(self, None, HTTPErrorBadRequest, <<>>)
    ELSE LET pr == parse_request_line(self, Head(lines))
             s1 == [pr.self EXCEPT !.needs_request_line = FALSE]
             calls == <<set_request_line(Val(s1.method), Val(s1.parsed_url),
                                         Val(s1.version))>>
         IN  IF pr.err # NoError THEN Result(pr.self, None, pr.err, <<>>)
             ELSE IF Tail(lines) = <<>> THEN Result(s1, None, NoError, calls)
             ELSE consume_headers(s1, Tail(lines), calls)

\* consume, lines 67-80: the line framing
consume_lines(self, data) ==
    LET fn == find_newline(self, data)
        s2 == fn.self
        lines == split(s2._buffer \o data, Val(s2.EOL_TOKEN))
        last_line == lines[Len(lines)]
        s3 == [s2 EXCEPT !._buffer =
                  IF ~endswith(data, Val(s2.EOL_TOKEN)) THEN last_line
                  ELSE <<>>]
    IN  IF fn.pos = -1
        THEN Result([s2 EXCEPT !._buffer = @ \o data], None, NoError, <<>>)
        ELSE consume_request_line(s3, SubSeq(lines, 1, Len(lines) - 1))

\* consume with the limit of line 64 off by one
consume_off_by_one(self, data) ==
    LET s1 == [self EXCEPT !.request_length = @ + Len(data)]
    IN  IF s1.request_length > MAX_REQUEST_LENGTH + 1
        THEN Result(s1, None, HTTPErrorBadRequest, <<>>)
        ELSE consume_lines(s1, data)

\* consume that tests the limit before adding len(data) and leaves
\* request_length alone when it raises
consume_check_before_add(self, data) ==
    IF self.request_length + Len(data) > MAX_REQUEST_LENGTH
    THEN Result(self, None, HTTPErrorBadRequest, <<>>)
    ELSE consume_lines([self EXCEPT !.request_length = @ + Len(data)], data)

\* Parser.consume
consume(self, data) ==
    LET s1 == [self EXCEPT !.request_length = @ + Len(data)]
    IN  IF s1.request_length > MAX_REQUEST_LENGTH
        THEN Result(s1, None, HTTPErrorBadRequest, <<>>)
        ELSE consume_lines(s1, data)

(***************************************************************************)
(* The wire: the byte streams a client sends, delivered by the transport   *)
(* in chunks of any size                                                   *)
(***************************************************************************)

\* the longest run of body bytes appended to a request
MaxPad == 12

Pad(n) == [i \in 1..n |-> "B"]

RL_GET == <<"G", "E", "T", " ", "/", " ", "H", "T", "T", "P", "/", "1", ".", "1">>
RL_POST == <<"P", "O", "S", "T", " ", "/", "a", "?", "x", " ",
             "H", "T", "T", "P", "/", "1", ".", "0">>
RL_TWO_TOKENS == <<"G", "E", "T", " ", "/">>
RL_FOUR_TOKENS == <<"G", "E", "T", " ", "/", " ", "H", "T", "T", "P", "/", "1",
                    ".", "1", " ", "x">>
RL_BAD_VERSION == <<"G", "E", "T", " ", "/", " ", "H", "T", "T", "P", "/", "2", ".", "0">>
RL_BAD_METHOD == <<"P", "U", "T", " ", "/", " ", "H", "T", "T", "P", "/", "1", ".", "1">>
RL_BAD_BOTH == <<"F", "O", "O", " ", "/", " ", "H", "T", "T", "P", "/", "2", ".", "0">>
RL_BAD_UTF8 == <<"G", "xFF">>
RL_BAD_COUNT == <<"F", "O", "O", " ", "H", "T", "T", "P", "/", "2", ".", "0">>

H_A == <<"A", ":", "b">>
H_A_LOWER == <<"a", ":", " ", "c">>
H_B == <<"B", ":", "e">>
H_FOLD == <<" ", "c">>
H_FOLD_TAB == <<"\t", "d", " ">>
H_NO_COLON == <<"A", "b">>
H_EMPTY_KEY == <<":", "b">>
H_BAD_NAME == <<"A", "(", ":", "b">>
H_BAD_UTF8 == <<"A", ":", "xFF">>
BLANK == <<>>

\* a message: its complete lines and the unterminated bytes after the last
\* line ending
Msg(lines, tail) == [lines |-> lines, tail |-> tail]

\* well-formed requests with at least one header line
ValidMessages ==
    {Msg(<<RL_GET, H_A, BLANK>>, Pad(n)) : n \in {0, 2}} \cup
    {Msg(<<RL_POST, H_A, BLANK>>, Pad(1)),
     Msg(<<RL_GET, H_A, BLANK, Pad(1), Pad(2)>>, Pad(1)),
     Msg(<<RL_GET, H_A, H_FOLD, H_FOLD_TAB, BLANK>>, <<>>),
     Msg(<<RL_GET, H_A, H_A_LOWER, BLANK>>, Pad(1)),
     Msg(<<RL_GET, H_A, H_B, H_FOLD, BLANK>>, <<>>),
     Msg(<<RL_GET, H_A, BLANK, H_B, BLANK>>, <<>>)}

OtherMessages ==
    {Msg(<<RL_GET, H_A, BLANK>>, Pad(MaxPad)),
     Msg(<<Pad(MaxPad) \o Pad(MaxPad) \o Pad(MaxPad)>>, <<>>),
     Msg(<<RL_GET, H_A, BLANK, Pad(MaxPad - 2)>>, Pad(2)),
     Msg(<<RL_GET, BLANK>>, Pad(1)),
     Msg(<<RL_TWO_TOKENS, RL_GET, H_A, BLANK>>, Pad(1)),
     Msg(<<RL_FOUR_TOKENS, H_A, BLANK>>, <<>>),
     Msg(<<RL_BAD_VERSION, H_A, BLANK>>, Pad(1)),
     Msg(<<RL_BAD_METHOD, H_A, BLANK>>, Pad(1)),
     Msg(<<RL_BAD_BOTH, RL_GET, H_A, BLANK>>, <<>>),
     Msg(<<RL_BAD_UTF8, RL_GET, H_A, BLANK>>, <<>>),
     Msg(<<RL_BAD_COUNT, H_A, BLANK>>, <<>>),
     Msg(<<BLANK, RL_GET, H_A, BLANK>>, <<>>),
     Msg(<<RL_GET, H_NO_COLON, H_A, BLANK>>, Pad(1)),
     Msg(<<RL_GET, H_FOLD, H_A, BLANK>>, Pad(1)),
     Msg(<<RL_GET, H_EMPTY_KEY, BLANK>>, <<>>),
     Msg(<<RL_GET, H_A, H_BAD_NAME, BLANK>>, <<>>),
     Msg(<<RL_GET, H_A, H_BAD_UTF8, BLANK>>, <<>>)}

\* the line ending written after the i-th line under each convention
Styles == {"LF", "CRLF", "CRLF_LF", "LF_CRLF"}
Eol(style, i) ==
    CASE style = "LF" -> LF_TOKEN
      [] style = "CRLF" -> CRLF_TOKEN
      [] style = "CRLF_LF" -> IF i = 1 THEN CRLF_TOKEN ELSE LF_TOKEN
      [] style = "LF_CRLF" -> IF i = 1 THEN LF_TOKEN ELSE CRLF_TOKEN

\* the bytes of a message on the wire
Wire(msg, style) ==
    join([i \in 1..Len(msg.lines) |-> msg.lines[i] \o Eol(style, i)])
        \o msg.tail

\* the valid requests under one convention; every message under one
\* convention; the valid requests also with the convention changing after
\* the first line
ValidStreams == {Wire(m, st) : m \in ValidMessages, st \in {"LF", "CRLF"}}
Streams ==
    {Wire(m, st) : m \in ValidMessages, st \in Styles} \cup
    {Wire(m, st) : m \in OtherMessages, st \in {"LF", "CRLF"}}

(***************************************************************************)
(* State                                                                   *)
(***************************************************************************)

VARIABLES
    self,       \* the Parser object
    stream,     \* the bytes the client sends on this connection
    rest,       \* the bytes of stream not yet handed to consume
    ret,        \* the value the last consume call returned
    err,        \* the exception the last consume call raised
    calls,      \* the calls made on self.parent so far
    failed      \* some consume call has raised

vars == <<self, stream, rest, ret, err, calls, failed>>

Init ==
    /\ self = ParserInit
    /\ stream \in Streams
    /\ rest = stream
    /\ ret = None
    /\ err = NoError
    /\ calls = <<>>
    /\ failed = FALSE

\* the transport hands the next n bytes of the stream to consume
Consume ==
    \E n \in 1..Len(rest) :
        LET r == consume(self, SubSeq(rest, 1, n))
        IN  /\ rest' = SubSeq(rest, n + 1, Len(rest))
            /\ self' = r.self
            /\ ret' = r.ret
            /\ err' = r.err
            /\ calls' = calls \o r.calls
            /\ failed' = (failed \/ r.err # NoError)
            /\ UNCHANGED stream

Next == Consume

Spec == Init /\ [][Next]_vars

(***************************************************************************)
(* Properties                                                              *)
(***************************************************************************)

\* the bytes handed to consume so far and the argument of the call that a
\* step makes
Consumed == Len(stream) - Len(rest)
Chunk == SubSeq(rest, 1, Len(rest) - Len(rest'))
Called == rest' # rest

Classified ==
    {HTTPErrorBadRequest, HTTPErrorNotImplemented, HTTPErrorInvalidHeader,
     HTTPErrorVersionNotSupported}

\* what a parser holds of the request: the request line, the headers map and
\* the body prefix
RequestOf(p) ==
    [method |-> p.method, target |-> p.parsed_url, version |-> p.version,
     headers |-> p.headers, body |-> p.body_buffer]

\* the result of handing the whole stream to one consume call
OneShot == consume(ParserInit, stream)

\* the line ending a stream of ValidStreams uses
StreamEol(s) == IF find(s, CRLF_TOKEN) # -1 THEN CRLF_TOKEN ELSE LF_TOKEN

\* the bytes of s[1..upto] that follow the blank line ending the headers
AfterTerminator(s, upto) ==
    LET term == StreamEol(s) \o StreamEol(s)
    IN  SubSeq(s, find(s, term) + Len(term) + 1, upto)

\* C1: chunking invariance: for a valid request stream (LF or CRLF), fed in
\* any split, no consume call raises and, once the stream is consumed, the
\* request line, the headers map and the body prefix are those of a single
\* consume call with the whole stream.
C1_ChunkingInvariance ==
    stream \in ValidStreams =>
        /\ err = NoError
        /\ rest = <<>> =>
              /\ OneShot.err = NoError
              /\ RequestOf(self) = RequestOf(OneShot.self)

\* C2: the consume call that receives the blank line ending the headers
\* returns exactly the bytes of its input that follow the blank line, and
\* holds none of them back in the pending buffer.
C2_BodyPrefixReturned ==
    [][(stream \in ValidStreams /\ self.needs_headers
            /\ ~self'.needs_headers)
        => /\ ret' = Some(AfterTerminator(stream, Len(stream) - Len(rest')))
           /\ self'._buffer = <<>>]_vars

\* C3: once headers are complete, every consume call within the size limit
\* returns its chunk verbatim as body bytes.
C3_BodyPassThrough ==
    [][(Called /\ ~self.needs_headers
            /\ Len(stream) - Len(rest') <= MAX_REQUEST_LENGTH)
        => (err' = NoError /\ ret' = Some(Chunk))]_vars

\* C4: every consume call returns normally or raises one of the four
\* classified errors.
C4_OnlyClassifiedErrors == err \in Classified \cup {NoError}

\* C6: after a consume call has raised, no later call notifies a callback,
\* changes a phase flag or returns body bytes.
C6_ErrorsAreFatal ==
    [][failed =>
          /\ calls' = calls
          /\ self'.needs_request_line = self.needs_request_line
          /\ self'.needs_headers = self.needs_headers
          /\ ret' = None]_vars

\* the number of calls of a callback so far
CountCalls(name) == Cardinality({i \in 1..Len(calls) : calls[i].name = name})

\* each callback was called at most once, set_headers only after
\* set_request_line, and each phase flag is false exactly when its callback
\* has been called
CallbacksInOrder ==
    /\ CountCalls("set_request_line") <= 1
    /\ CountCalls("set_headers") <= 1
    /\ \A i \in 1..Len(calls) :
          calls[i].name = "set_headers" =>
              \E j \in 1..(i - 1) : calls[j].name = "set_request_line"
    /\ self.needs_request_line <=> CountCalls("set_request_line") = 0
    /\ self.needs_headers <=> CountCalls("set_headers") = 0

\* C5: the phase moves only forward: needs_request_line and needs_headers
\* never go back to true, each callback is invoked at most once (when its
\* flag goes false), and set_headers never before set_request_line.
C5_PhaseForwardOnly ==
    [][/\ self'.needs_request_line => self.needs_request_line
       /\ self'.needs_headers => self.needs_headers
       /\ CallbacksInOrder']_vars

\* both callbacks have been invoked and a later call has run
C5_Witness ==
    /\ ~self.needs_request_line
    /\ ~self.needs_headers
    /\ Len(calls) = 2
    /\ err = NoError
    /\ ret = None

\* C7 as stated: request_length never decreases and never exceeds
\* MAX_REQUEST_LENGTH, also after a call that failed on the size check.
C7_LengthBounded ==
    [][/\ self'.request_length >= self.request_length
       /\ self'.request_length <= MAX_REQUEST_LENGTH]_vars

\* C7 amended: request_length never decreases, and it exceeds
\* MAX_REQUEST_LENGTH only in the state left by a call that raised
\* HTTPErrorBadRequest on the size check; after every call that returned
\* normally it is within the maximum.
C7_LengthBoundedUnlessRejected ==
    [][/\ self'.request_length >= self.request_length
       /\ self'.request_length = Len(stream) - Len(rest')
       /\ self'.request_length > MAX_REQUEST_LENGTH
             => (err' = HTTPErrorBadRequest /\ ret' = None)]_vars

\* a call failed on the size check and left request_length above the limit
C7_Witness ==
    /\ self.request_length > MAX_REQUEST_LENGTH
    /\ err = HTTPErrorBadRequest

\* C8: every consume call that takes the cumulative byte count above the
\* maximum, the first such call and all later ones, raises
\* HTTPErrorBadRequest, invokes no callback and changes nothing of the
\* parser but request_length.
C8_SizeEnforcement ==
    [][(Called /\ Len(stream) - Len(rest') > MAX_REQUEST_LENGTH)
        => /\ err' = HTTPErrorBadRequest
           /\ ret' = None
           /\ calls' = calls
           /\ self' = [self EXCEPT !.request_length = @ + Len(Chunk)]]_vars

\* the size check fired on a parser that holds a token, a pending fragment
\* and a completed request
C8_Witness ==
    /\ Consumed > MAX_REQUEST_LENGTH + 1
    /\ err = HTTPErrorBadRequest
    /\ self.EOL_TOKEN # None
    /\ self._buffer # <<>>
    /\ Len(calls) = 2

\* C9: once set, EOL_TOKEN never changes.
C9_EolLocked ==
    [][self.EOL_TOKEN # None => self'.EOL_TOKEN = self.EOL_TOKEN]_vars

\* the token is locked to CRLF and a later bare '\n' sits unsplit in the
\* pending buffer
C9_Witness ==
    /\ self.EOL_TOKEN = Some(CRLF_TOKEN)
    /\ find(self._buffer, LF_TOKEN) # -1
    /\ find(self._buffer, CRLF_TOKEN) = -1

\* the step hands the first line to the request-line parser
RequestLineDispatched ==
    /\ Called
    /\ self.needs_request_line
    /\ Len(stream) - Len(rest') <= MAX_REQUEST_LENGTH
    /\ self'.EOL_TOKEN # None
    /\ find(Chunk, Val(self'.EOL_TOKEN)) # -1

\* the first complete line of the bytes pending at the step
FirstLine == Head(split(self._buffer \o Chunk, Val(self'.EOL_TOKEN)))

\* the step rejects the request line with error e
Rejected(e) ==
    /\ err' = e
    /\ ret' = None
    /\ self'.needs_request_line
    /\ calls' = calls

\* C10: a first line without exactly three tokens raises HTTPErrorBadRequest,
\* a three-token line with an unsupported version
\* HTTPErrorVersionNotSupported, one with a supported version and a method
\* other than GET and POST HTTPErrorNotImplemented, each without the callback
\* and without leaving NeedRequestLine; only a valid line invokes
\* set_request_line and moves to NeedHeaders.
C10_RequestLineClassification ==
    [][IF RequestLineDispatched
       THEN LET toks == split_ws(FirstLine)
                malformed == ~can_decode(FirstLine) \/ Len(toks) # 3
            IN  IF malformed THEN Rejected(HTTPErrorBadRequest)
                ELSE IF toks[3] \notin SupportedVersions
                THEN Rejected(HTTPErrorVersionNotSupported)
                ELSE IF toks[1] \notin {<<"G", "E", "T">>, <<"P", "O", "S", "T">>}
                THEN Rejected(HTTPErrorNotImplemented)
                ELSE /\ ~self'.needs_request_line
                     /\ Len(calls') > Len(calls)
                     /\ calls'[Len(calls) + 1].name = "set_request_line"
                     /\ calls'[Len(calls) + 1].args[1] = toks[1]
                     /\ calls'[Len(calls) + 1].args[4] = toks[3]
       ELSE /\ self'.needs_request_line = self.needs_request_line
            /\ self.needs_request_line => calls' = calls]_vars

\* a three-token line with a supported version and an unknown method was
\* rejected
C10_Witness ==
    /\ err = HTTPErrorNotImplemented
    /\ self.needs_request_line
    /\ self.method = Some(<<"P", "U", "T">>)
    /\ calls = <<>>

\* the step splits the pending bytes into complete lines and dispatches them
LinesDispatched ==
    /\ Called
    /\ Len(stream) - Len(rest') <= MAX_REQUEST_LENGTH
    /\ self'.EOL_TOKEN # None
    /\ find(Chunk, Val(self'.EOL_TOKEN)) # -1

\* the complete lines of the step
StepLines ==
    LET l == split(self._buffer \o Chunk, Val(self'.EOL_TOKEN))
    IN  SubSeq(l, 1, Len(l) - 1)

\* the lines of the step that reach the header accumulator: all of them, or
\* those after a request line accepted in the same step
HeaderLines == IF self.needs_request_line THEN Tail(StepLines) ELSE StepLines

\* the step hands at least one line to the header accumulator
HeaderLinesDispatched ==
    /\ LinesDispatched
    /\ self.needs_headers
    /\ ~self'.needs_request_line
    /\ HeaderLines # <<>>

\* the trimmed text before the first colon, the trimmed text after it
NameOf(line) == strip(SubSeq(line, 1, find(line, <<":">>)))
ValueOf(line) == strip(SubSeq(line, find(line, <<":">>) + 2, Len(line)))

IsContinuation(line) == line[1] \in {SP, TAB}

\* a line the header accumulator must reject, given the pending header
BadHeaderLine(line, pending) ==
    IF IsContinuation(line) THEN pending = None
    ELSE LET name == NameOf(line)
         IN  \/ find(line, <<":">>) = -1
             \/ name = <<>>
             \/ \E i \in 1..Len(name) : name[i] \in INVALID_CHAR_REGEX

\* the headers map once the pending header is written into it
Flushed(headers, pending) ==
    IF pending = None THEN headers
    ELSE [k \in DOMAIN headers \cup {Val(pending).key} |->
            IF k = Val(pending).key THEN Val(pending).value ELSE headers[k]]

\* the step accepts the single header line `line`: it becomes the pending
\* header (the one before it is flushed, the new one is not) or extends it
Accepted(line) ==
    /\ err' = NoError
    /\ ret' = None
    /\ self'.needs_headers
    /\ self'._header_buffer # None
    /\ IF IsContinuation(line)
       THEN /\ self'.headers = self.headers
            /\ Val(self'._header_buffer).key = Val(self._header_buffer).key
            /\ Val(self'._header_buffer).value =
                   [folded |-> TRUE,
                    parts |-> Val(self._header_buffer).value.parts
                                  \o <<strip(line)>>]
       ELSE /\ self'.headers = Flushed(self.headers, self._header_buffer)
            /\ Val(self'._header_buffer) =
                   [key |-> upper(NameOf(line)),
                    value |-> [folded |-> FALSE, parts |-> <<ValueOf(line)>>]]

\* the step rejects its first header line with error e and stays in
\* NeedHeaders
HeaderRejected(e) ==
    /\ err' = e
    /\ ret' = None
    /\ self'.needs_headers
    /\ \A i \in 1..Len(calls') : calls'[i].name # "set_headers"

\* the classification of the first non-blank header line of a step;
\* decodeAware tells whether a line that is not UTF-8 is rejected with
\* HTTPErrorBadRequest or classified like any other line
HeaderLineClassified(decodeAware) ==
    (LinesDispatched /\ self.needs_headers /\ ~self'.needs_request_line) =>
        \A lines \in {HeaderLines} :
        \A line \in {IF lines = <<>> THEN <<>> ELSE lines[1]} :
            (lines # <<>> /\ line # <<>>) =>
                IF decodeAware /\ ~can_decode(line)
                THEN HeaderRejected(HTTPErrorBadRequest)
                ELSE IF BadHeaderLine(line, self._header_buffer)
                THEN HeaderRejected(HTTPErrorInvalidHeader)
                ELSE Len(lines) = 1 => Accepted(line)

FoldedOne == Msg(<<RL_GET, H_A, H_FOLD, H_FOLD_TAB, BLANK>>, <<>>)
FoldedSecond == Msg(<<RL_GET, H_A, H_B, H_FOLD, BLANK>>, <<>>)
FoldedHeaders(s) ==
    IF s \in {Wire(FoldedOne, st) : st \in Styles}
    THEN <<"A">> :> [folded |-> TRUE, parts |-> <<<<"b">>, <<"c">>, <<"d">>>>]
    ELSE (<<"A">> :> [folded |-> FALSE, parts |-> <<<<"b">>>>]) @@
         (<<"B">> :> [folded |-> TRUE, parts |-> <<<<"e">>, <<"c">>>>])

\* once the headers of a folded request are complete, the map holds the list
\* of the original value and the stripped continuations under the folded
\* name, and the header flushed before it is not extended
FoldedResult ==
    (stream \in {Wire(m, st) : m \in {FoldedOne, FoldedSecond}, st \in Styles}
        /\ ~self.needs_headers)
    => self.headers = FoldedHeaders(stream)

\* C12: a header line followed by continuation lines, in the same call or in
\* later calls, yields the list of the original value and the stripped
\* continuations in arrival order; continuation lines extend the pending
\* header only and leave the flushed headers alone.
C12_Folding ==
    [][/\ FoldedResult'
       /\ (LinesDispatched /\ self.needs_headers /\ ~self.needs_request_line
              /\ self._header_buffer # None)
          => \A lines \in {StepLines} :
                 (\A i \in 1..Len(lines) :
                      /\ lines[i] # <<>>
                      /\ can_decode(lines[i])
                      /\ IsContinuation(lines[i]))
                 => /\ err' = NoError
                    /\ self'.headers = self.headers
                    /\ self'._header_buffer # None
                    /\ Val(self'._header_buffer).key
                           = Val(self._header_buffer).key
                    /\ Val(self'._header_buffer).value =
                           [folded |-> TRUE,
                            parts |-> Val(self._header_buffer).value.parts \o
                                [i \in 1..Len(lines) |-> strip(lines[i])]]]_vars

\* the second header of a request was folded and flushed, the first one kept
\* its scalar value
C12_Witness ==
    /\ ~self.needs_headers
    /\ <<"B">> \in DOMAIN self.headers
    /\ self.headers[<<"B">>].folded
    /\ ~self.headers[<<"A">>].folded

\* the position of the blank line among the header lines a step dispatches
\* (one past the end without one), the lines before it that start a header,
\* and the ones whose header the step also flushes: the pending header is
\* flushed by the next header start or by the blank line
BlankAt(lines) ==
    IF \E i \in 1..Len(lines) : lines[i] = <<>>
    THEN CHOOSE i \in 1..Len(lines) :
             lines[i] = <<>> /\ \A j \in 1..(i - 1) : lines[j] # <<>>
    ELSE Len(lines) + 1
Starts(lines, blank) == {i \in 1..(blank - 1) : ~IsContinuation(lines[i])}
FlushedStarts(lines, blank, starts) ==
    {i \in starts : blank <= Len(lines) \/ \E j \in starts : j > i}
SetMax(S) == CHOOSE i \in S : \A j \in S : j <= i

\* every key of the headers map and of the pending header is upper case
CanonicalKeys ==
    /\ \A k \in DOMAIN self.headers : upper(k) = k
    /\ self._header_buffer # None
       => upper(Val(self._header_buffer).key) = Val(self._header_buffer).key

\* a step that parses header lines leaves under every canonical name the
\* value of the occurrence flushed last: the last one this step flushed,
\* else the header that was pending, else the entry the map already held
LastWriteWins ==
    (LinesDispatched /\ self.needs_headers /\ ~self'.needs_request_line
        /\ err' = NoError)
    => \A lines \in {HeaderLines} :
       \A blank \in {BlankAt(lines)} :
       \A starts \in {Starts(lines, blank)} :
       \A flushed \in {FlushedStarts(lines, blank, starts)} :
       \A names \in {[i \in flushed |-> upper(NameOf(lines[i]))]} :
       \A pending \in {IF self._header_buffer # None
                          /\ (starts # {} \/ blank <= Len(lines))
                       THEN {Val(self._header_buffer).key} ELSE {}} :
           /\ DOMAIN self'.headers =
                 DOMAIN self.headers \cup {names[i] : i \in flushed}
                                     \cup pending
           /\ \A k \in DOMAIN self'.headers :
                 LET F == {i \in flushed : names[i] = k}
                 IN  IF F # {}
                     THEN Head(self'.headers[k].parts)
                              = ValueOf(lines[SetMax(F)])
                     ELSE IF k \in pending
                     THEN Head(self'.headers[k].parts)
                              = Head(Val(self._header_buffer).value.parts)
                     ELSE self'.headers[k] = self.headers[k]

\* the request that names one header twice, in two letter cases
TwiceNamed == Msg(<<RL_GET, H_A, H_A_LOWER, BLANK>>, <<>>)

\* C13: the headers map is keyed by the upper-cased header name, names that
\* differ only in case address one entry, and the entry of a name holds the
\* value of its last flushed occurrence; the earlier value is discarded.
C13_Canonicalization ==
    [][/\ CanonicalKeys'
       /\ LastWriteWins
       /\ (stream \in {Wire(TwiceNamed, st) : st \in Styles}
              /\ ~self'.needs_headers)
          => self'.headers =
                 (<<"A">> :> [folded |-> FALSE, parts |-> <<<<"c">>>>])]_vars

\* the header given as 'A:b' and then as 'a: c' ended as the single entry c
C13_Witness ==
    /\ ~self.needs_headers
    /\ find(stream, H_A_LOWER) # -1
    /\ DOMAIN self.headers = {<<"A">>}
    /\ self.headers[<<"A">>].parts = <<<<"c">>>>

\* C14: a consume call that returns normally with the parser still waiting
\* for the request line or for the end of the headers returns None; a call
\* returns a value other than None only when headers are complete at its end.
C14_NoneWhileAccumulating ==
    /\ (err = NoError /\ (self.needs_request_line \/ self.needs_headers))
       => ret = None
    /\ ret # None
       => (err = NoError /\ ~self.needs_request_line /\ ~self.needs_headers)

\* a call returned None with the request line accepted and a header pending
C14_Witness ==
    /\ err = NoError
    /\ ret = None
    /\ ~self.needs_request_line
    /\ self.needs_headers
    /\ self._header_buffer # None
    /\ Len(calls) = 1

\* C15: the EOL token is locked by the byte that precedes the first '\n' of
\* the whole stream, also across a chunk boundary: CRLF exactly when that
\* byte is '\r', LF when there is none or another one.
C15_EolAcrossChunks ==
    self.EOL_TOKEN # None
    => \A nl \in {find(stream, LF_TOKEN)} :
           self.EOL_TOKEN =
               Some(IF nl > 0 /\ stream[nl] = CR THEN CRLF_TOKEN
                    ELSE LF_TOKEN)

\* the bytes that follow the last occurrence of token in string
AfterLastToken(string, token) ==
    LET pieces == split(string, token) IN pieces[Len(pieces)]

\* C16: before headers are complete and once the EOL token is locked, after a
\* consume call that returned normally the pending buffer holds the bytes
\* that follow the last EOL token of the stream consumed so far, and so no
\* full occurrence of the token.
C16_BufferAfterLastToken ==
    (err = NoError /\ self.EOL_TOKEN # None /\ self.needs_headers)
    => /\ self._buffer =
              AfterLastToken(SubSeq(stream, 1, Consumed),
                             Val(self.EOL_TOKEN))
       /\ find(self._buffer, Val(self.EOL_TOKEN)) = -1

\* C17: the blank line arriving in NeedHeaders with no pending header ends
\* the headers without an error: set_headers is invoked with an empty map and
\* the parser leaves NeedHeaders.
C17_NoHeaderRequest ==
    [][(HeaderLinesDispatched /\ self._header_buffer = None)
       => \A lines \in {HeaderLines} :
              lines[1] = <<>>
              => /\ err' = NoError
                 /\ ~self'.needs_headers
                 /\ self'.headers = ParserInit.headers
                 /\ calls'[Len(calls')] = set_headers(ParserInit.headers)]_vars

\* the request whose body lines look like header lines
HeadersThenBody == Msg(<<RL_GET, H_A, BLANK, H_B, BLANK>>, <<>>)

\* C18: header processing stops at the blank line: once headers are complete
\* no input is parsed as a header line, raises HTTPErrorInvalidHeader or
\* changes the headers map or the pending header, in the same batch or in a
\* later call; the map handed to set_headers stays the parser's map.
C18_HeadersStopAtBlank ==
    [][/\ (Called /\ ~self.needs_headers)
          => /\ ~self'.needs_headers
             /\ self'.headers = self.headers
             /\ self'._header_buffer = self._header_buffer
             /\ self'.body_buffer = self.body_buffer
             /\ err' # HTTPErrorInvalidHeader
             /\ calls' = calls
       /\ ~self'.needs_headers
          => /\ self'._header_buffer = None
             /\ calls'[Len(calls')] = set_headers(self'.headers)
             /\ stream \in {Wire(HeadersThenBody, st) : st \in Styles}
                => self'.headers =
                       (<<"A">> :> [folded |-> FALSE, parts |-> <<<<"b">>>>])
       /\ (HeaderLinesDispatched /\ err' = NoError)
          => \A lines \in {HeaderLines} :
                 DOMAIN self'.headers \subseteq
                     DOMAIN self.headers
                     \cup (IF self._header_buffer = None THEN {}
                           ELSE {Val(self._header_buffer).key})
                     \cup {upper(NameOf(lines[i])) :
                               i \in Starts(lines, BlankAt(lines))}]_vars

\* headers are complete and bytes that would not parse as a header line were
\* consumed after the blank line without an error
C18_Witness ==
    /\ ~self.needs_headers
    /\ err = NoError
    /\ rest = <<>>
    /\ Len(stream) > find(stream, <<LF, LF>>) + 3
    /\ find(stream, <<LF, LF>>) # -1
    /\ DOMAIN self.headers = {<<"A">>}

\* C19: at the end of every consume call, needs_headers false implies
\* needs_request_line false, body_buffer is set exactly when needs_headers is
\* false, and no header is pending when needs_headers is false.
C19_EndOfCallInvariants ==
    /\ ~self.needs_headers => ~self.needs_request_line
    /\ self.body_buffer # None <=> ~self.needs_headers
    /\ ~self.needs_headers => self._header_buffer = None

\* a call that raised left the parser past the request line, with
\* needs_headers true and body_buffer unset
C19_Witness ==
    /\ err # NoError
    /\ ~self.needs_request_line
    /\ self.needs_headers
    /\ self.body_buffer = None
    /\ self._header_buffer # None

\* C20: the request-line checks run in the order token count, version,
\* method: a three-token line with an unsupported version raises
\* HTTPErrorVersionNotSupported whatever its method, and a line without
\* exactly three tokens raises HTTPErrorBadRequest whatever its tokens.
C20_CheckOrder ==
    [][(RequestLineDispatched /\ can_decode(FirstLine))
       => \A toks \in {split_ws(FirstLine)} :
              /\ Len(toks) # 3 => err' = HTTPErrorBadRequest
              /\ (Len(toks) = 3 /\ toks[3] \notin SupportedVersions)
                 => err' = HTTPErrorVersionNotSupported
              /\ err' = HTTPErrorNotImplemented
                 => (Len(toks) = 3 /\ toks[3] \in SupportedVersions)]_vars

\* the line 'FOO / HTTP/2.0' was rejected for its version
C20_Witness ==
    /\ err = HTTPErrorVersionNotSupported
    /\ self.needs_request_line
    /\ SubSeq(stream, 1, Len(RL_BAD_BOTH)) = RL_BAD_BOTH
    /\ Consumed <= Len(RL_BAD_BOTH) + 2

=============================================================================
